---- MODULE Spec2Model ----
(***************************************************************************)
(* django-sync-migrations: the Migration Resetter (main) and the Migration *)
(* Resequencer (run_resequence), with the Application Filter and the       *)
(* Migration File Lister they share.                                       *)
(*                                                                         *)
(* Text (paths, dotted application names, replies typed at the prompt) is  *)
(* a sequence of tokens.  A token is one character, except the four        *)
(* literals the code looks for as a whole: "migrations", ".py", ".venv"    *)
(* and "site-packages".                                                    *)
(***************************************************************************)
EXTENDS Integers, Sequences, FiniteSets, TLC

VARIABLES
    tool,            \* "reset" (main) or "reseq" (run_resequence)
    build,           \* "package" (src/src/...) or "script" (src/django_sync_migrations.py)
    args,            \* the parsed flags / keyword parameters
    head,            \* the branch that is checked out
    pc,              \* position in the tool
    repo_root,       \* main: Path(git rev-parse --show-toplevel or "")
    current_branch,  \* main: git rev-parse --abbrev-ref HEAD
    allowed_labels,  \* result of the Application Filter
    output,          \* git ls-tree -r <branch> --name-only, as git_cmd returns it
    targets,         \* main: get_migration_targets(...)
    idx,             \* main: position in "for app, migration in targets"
    to_remove,       \* run_resequence: check_for_potential_merge_migrations(...)
    reply,           \* run_resequence: what input() gave
    disk,            \* migration files in the working tree
    deleted,         \* run_resequence: delete_migration_files(...)
    cmds,            \* the mutating external commands executed so far
    log,             \* what was printed (stdout and stderr), as message tags
    exit_code        \* <<>> while the tool runs, then <<the value returned>>

vars == <<tool, build, args, head, pc, repo_root, current_branch, allowed_labels,
          output, targets, idx, to_remove, reply, disk, deleted, cmds, log, exit_code>>

(***************************************************************************)
(* Bounds of the model.                                                    *)
(***************************************************************************)
\* lines of the listing main reads; lines of the listing run_resequence
\* reads; migration files in the working tree
MaxListing == 3
MaxBranchFiles == 2
MaxDisk == 3

\* exit_code before and after the tool returns
NoExit == <<>>

Returned(code) == <<code>>

\* The target branch (--branch, default "dev") and a feature branch.
Branch == "dev"
Feature == "feature"

(***************************************************************************)
(* Text primitives.                                                        *)
(***************************************************************************)
DigitSeq == <<"0", "1", "2", "3", "4", "5", "6", "7", "8", "9">>

Digits == {DigitSeq[i] : i \in 1..Len(DigitSeq)}

DigitVal(c) == (CHOOSE i \in 1..Len(DigitSeq) : DigitSeq[i] = c) - 1

SetMax(S) == CHOOSE x \in S : \A y \in S : y <= x

SetMin(S) == CHOOSE x \in S : \A y \in S : x <= y

\* int(num_str)
RECURSIVE ParseInt(_)
ParseInt(s) ==
    IF s = <<>> THEN 0
    ELSE 10 * ParseInt(SubSeq(s, 1, Len(s) - 1)) + DigitVal(s[Len(s)])

\* pat in line
Contains(line, pat) ==
    \E i \in 1..(Len(line) - Len(pat) + 1) : SubSeq(line, i, i + Len(pat) - 1) = pat

\* str.strip(): leading and trailing blanks removed
Strip(s) ==
    LET solid == {i \in 1..Len(s) : s[i] # " "}
    IN  IF solid = {} THEN <<>> ELSE SubSeq(s, SetMin(solid), SetMax(solid))

\* Character codes, for the order sorted() puts application directories in.
\* Only single characters occur in the application directories of the model.
Code(c) ==
    CASE c = "." -> 46
      [] c = "/" -> 47
      [] c \in Digits -> 48 + DigitVal(c)
      [] c = "_" -> 95
      [] c = "a" -> 97
      [] c = "b" -> 98
      [] c = "s" -> 115
      [] c = "x" -> 120
      [] c = "y" -> 121
      [] OTHER -> 200

RECURSIVE StrLess(_, _)
StrLess(s, t) ==
    IF t = <<>> THEN FALSE
    ELSE IF s = <<>> THEN TRUE
    ELSE IF Code(s[1]) # Code(t[1]) THEN Code(s[1]) < Code(t[1])
    ELSE StrLess(Tail(s), Tail(t))

\* sorted(S) for a set of strings
RECURSIVE SortedSeq(_)
SortedSeq(S) ==
    IF S = {} THEN <<>>
    ELSE LET m == CHOOSE a \in S : \A b \in S : a = b \/ StrLess(a, b)
         IN  <<m>> \o SortedSeq(S \ {m})

(***************************************************************************)
(* The migration naming pattern  ^(.+)/migrations/(\d+)_(.+\.py)$          *)
(***************************************************************************)
\* length of the run of digits a file name starts with
RECURSIVE DigitRun(_)
DigitRun(f) ==
    IF f # <<>> /\ f[1] \in Digits THEN 1 + DigitRun(Tail(f)) ELSE 0

\* (\d+)_(.+\.py)$ on what follows "/migrations/"
FileMatches(f) ==
    LET d == DigitRun(f)
    IN  /\ d >= 1
        /\ Len(f) >= d + 3
        /\ f[d + 1] = "_"
        /\ f[Len(f)] = ".py"

\* the places where "/migrations/" may start for the pattern to match
PatternSplits(line) ==
    {k \in 2..(Len(line) - 3) :
        /\ SubSeq(line, k, k + 2) = <<"/", "migrations", "/">>
        /\ FileMatches(SubSeq(line, k + 3, Len(line)))}

PatternMatches(line) == PatternSplits(line) # {}

\* match.groups(): the first group is greedy, so the last split is taken
PatternGroups(line) ==
    LET k == SetMax(PatternSplits(line))
        f == SubSeq(line, k + 3, Len(line))
        d == DigitRun(f)
    IN  [app_dir   |-> SubSeq(line, 1, k - 1),
         num_str   |-> SubSeq(f, 1, d),
         name_part |-> SubSeq(f, d + 2, Len(f))]

\* "/.venv/" in line or "/site-packages/" in line
IsVendored(line) ==
    \/ Contains(line, <<"/", ".venv", "/">>)
    \/ Contains(line, <<"/", "site-packages", "/">>)

\* allowed_labels is None, or a frozenset: [none |-> BOOLEAN, labels |-> set]
NoneLabels == [none |-> TRUE, labels |-> {}]

SomeLabels(S) == [none |-> FALSE, labels |-> S]

\* Python truth of allowed_labels: None and the empty frozenset are false
Truthy(allowed) == ~allowed.none /\ allowed.labels # {}

(***************************************************************************)
(* Application Filter.                                                     *)
(***************************************************************************)
\* An INSTALLED_APPS entry: a plain string, or an object (an AppConfig) with
\* an optional label and name; an absent attribute is the empty string,
\* which "label or name" treats like None.
PlainName(path) == [kind |-> "str", path |-> path, label |-> <<>>, name |-> <<>>]

StructuredName(label, name) == [kind |-> "obj", path |-> <<>>, label |-> label, name |-> name]

\* p.rsplit(".", 1)[0]: everything before the last separator
AllButLastSegment(p) ==
    LET dots == {i \in 1..Len(p) : p[i] = "."}
    IN  IF dots = {} THEN p ELSE SubSeq(p, 1, SetMax(dots) - 1)

\* p.split(".")[0]
FirstSegment(p) ==
    LET dots == {i \in 1..Len(p) : p[i] = "."}
    IN  IF dots = {} THEN p ELSE SubSeq(p, 1, SetMin(dots) - 1)

\* p.split(".")[-1]
LastSegment(p) ==
    LET dots == {i \in 1..Len(p) : p[i] = "."}
    IN  IF dots = {} THEN p ELSE SubSeq(p, SetMax(dots) + 1, Len(p))

\* app_path.replace(".", "/")
DotsToSlashes(p) == [i \in 1..Len(p) |-> IF p[i] = "." THEN "/" ELSE p[i]]

\* getattr(app, "label", None) or getattr(app, "name", "")
EntryPath(app) ==
    IF app.kind = "str" THEN app.path
    ELSE IF app.label # <<>> THEN app.label ELSE app.name

\* app_paths_from_module: a string is kept as it is (the empty one too), an
\* object only when its path is not empty.  The list, in order.
AppPathsFromModule(installed) ==
    LET Kept(app) == app.kind = "str" \/ EntryPath(app) # <<>>
        kept == SelectSeq(installed, Kept)
    IN  [i \in 1..Len(kept) |-> EntryPath(kept[i])]

\* frozenset(p.split(".")[0] for p in paths if p)
FirstSegments(paths) ==
    {FirstSegment(paths[i]) : i \in {j \in 1..Len(paths) : paths[j] # <<>>}}

\* the manage.py shell one-liner: label, or name, or str(x) when neither is set
ShellEntryPath(app) ==
    IF app.kind = "obj" /\ app.label = <<>> /\ app.name = <<>> THEN <<"<obj>">>
    ELSE EntryPath(app)

\* A project as the filter sees it: whether manage.py exists, whether it names
\* a settings module (the setdefault pattern matches), whether importing that
\* module succeeds, whether "manage.py shell -c" exits 0 and prints the JSON
\* list, and the INSTALLED_APPS both ways would give.
Project(exists, match, import_ok, shell_ok, installed) ==
    [exists |-> exists, match |-> match, import_ok |-> import_ok,
     shell_ok |-> shell_ok, installed |-> installed]

\* get_installed_app_dirs (package build)
GetInstalledAppDirs(project) ==
    LET paths == AppPathsFromModule(project.installed)
        shell_paths == [i \in 1..Len(project.installed) |->
                            ShellEntryPath(project.installed[i])]
    IN  IF ~project.exists THEN NoneLabels
        ELSE IF project.match /\ project.import_ok /\ paths # <<>>
        THEN SomeLabels(FirstSegments(paths))
        ELSE IF project.shell_ok /\ shell_paths # <<>>
        THEN SomeLabels(FirstSegments(shell_paths))
        ELSE NoneLabels

\* get_installed_app_labels (script build): no subprocess fallback; every
\* entry contributes itself, its slashed form, its first and last segment.
GetInstalledAppLabels(project) ==
    LET Kept(app) == app.kind = "str" \/ EntryPath(app) # <<>>
        kept == SelectSeq(project.installed, Kept)
        paths == {EntryPath(kept[i]) : i \in 1..Len(kept)}
        labels == paths \cup {DotsToSlashes(p) : p \in paths}
                        \cup {FirstSegment(p) : p \in paths}
                        \cup {LastSegment(p) : p \in paths}
    IN  IF project.exists /\ project.match /\ project.import_ok /\ labels # {}
        THEN SomeLabels(labels)
        ELSE NoneLabels

(***************************************************************************)
(* Migration File Lister, branch mode as the Resetter uses it.             *)
(***************************************************************************)
\* the output of "git ls-tree -r <branch> --name-only": None on error
GitFailed == [ok |-> FALSE, lines |-> <<>>]

GitOutput(lines) == [ok |-> TRUE, lines |-> lines]

\* "if app_dir not in allowed_labels: continue", None taken for no label
LabelAllowedStrict(app_dir, allowed) == app_dir \in allowed.labels

\* "if allowed_labels and app_dir not in allowed_labels: continue"
LabelAllowed(app_dir, allowed) == ~Truthy(allowed) \/ app_dir \in allowed.labels

\* a line of the listing that reaches app_migrations
LineKept(line, allowed) ==
    /\ ~IsVendored(line)
    /\ PatternMatches(Strip(line))
    /\ LabelAllowed(PatternGroups(Strip(line)).app_dir, allowed)

\* f"{num_str}_{name_part[:-3]}" with int(num_str), for a kept line
MigrationEntry(line) ==
    LET g == PatternGroups(Strip(line))
    IN  [app  |-> g.app_dir,
         num  |-> ParseInt(g.num_str),
         name |-> g.num_str \o <<"_">> \o SubSeq(g.name_part, 1, Len(g.name_part) - 1)]

\* the (number, name) pairs of the kept lines, in listing order
MigrationEntries(lines, allowed) ==
    LET Kept(line) == LineKept(line, allowed)
        kept == SelectSeq(lines, Kept)
    IN  [i \in 1..Len(kept) |-> MigrationEntry(kept[i])]

\* min in place of max: the earliest migration
RECURSIVE MinByNumber(_)
MinByNumber(migrations) ==
    IF Len(migrations) = 1 THEN migrations[1]
    ELSE LET best == MinByNumber(Tail(migrations))
         IN  IF migrations[1].num <= best.num THEN migrations[1] ELSE best

\* max(migrations, key=lambda x: x[0]) picking the last of equal keys
RECURSIVE MaxByNumberLast(_)
MaxByNumberLast(migrations) ==
    IF Len(migrations) = 1 THEN migrations[1]
    ELSE LET best == MaxByNumberLast(Tail(migrations))
         IN  IF migrations[1].num > best.num THEN migrations[1] ELSE best

\* max(migrations, key=lambda x: x[0]): the first item whose key is the
\* largest (a later item replaces the best one only when strictly larger)
RECURSIVE MaxByNumber(_)
MaxByNumber(migrations) ==
    IF Len(migrations) = 1 THEN migrations[1]
    ELSE LET best == MaxByNumber(Tail(migrations))
         IN  IF migrations[1].num >= best.num THEN migrations[1] ELSE best

\* get_migration_targets: [(app, latest migration name), ...] sorted by app
GetMigrationTargets(out, allowed) ==
    IF ~out.ok \/ out.lines = <<>> THEN <<>>
    ELSE LET entries == MigrationEntries(out.lines, allowed)
             apps == SortedSeq({entries[i].app : i \in 1..Len(entries)})
             Of(app) == LET Mine(e) == e.app = app IN SelectSeq(entries, Mine)
         IN  [i \in 1..Len(apps) |->
                 [app |-> apps[i], migration |-> MaxByNumber(Of(apps[i])).name]]
(***************************************************************************)
(* Migration File Lister, full-set modes as the Resequencer uses them, and *)
(* the feature-only computation.                                           *)
(***************************************************************************)
\* the file name of a kept path: what follows "/migrations/"
FileName(line) ==
    LET g == PatternGroups(Strip(line))
    IN  g.num_str \o <<"_">> \o g.name_part

\* the kept paths grouped by application directory: app -> set of file names
GroupByApp(paths, allowed) ==
    LET kept == {l \in paths : LineKept(l, allowed)}
        apps == {PatternGroups(Strip(l)).app_dir : l \in kept}
    IN  [app \in apps |->
            {FileName(l) : l \in {k \in kept : PatternGroups(Strip(k)).app_dir = app}}]

\* get_all_migration_files_on_branch
GetAllMigrationFilesOnBranch(out, allowed) ==
    IF ~out.ok THEN GroupByApp({}, allowed)
    ELSE GroupByApp({out.lines[i] : i \in 1..Len(out.lines)}, allowed)

\* get_migration_files_in_working_tree
GetMigrationFilesInWorkingTree(files, allowed) == GroupByApp(files, allowed)

\* on_branch.get(app, set())
DictGet(dict, key) == IF key \in DOMAIN dict THEN dict[key] ELSE {}

\* the loop body without "if branch_files:": every application with a
\* feature-only file is kept
RECURSIVE MergeLoopNoGuard(_, _, _)
MergeLoopNoGuard(apps, in_tree, on_branch) ==
    IF apps = {} THEN <<>>
    ELSE LET app == CHOOSE a \in apps : TRUE
             rest == MergeLoopNoGuard(apps \ {app}, in_tree, on_branch)
             feature_only == in_tree[app] \ DictGet(on_branch, app)
         IN  IF feature_only = {} THEN rest
             ELSE (app :> feature_only) @@ rest

\* "for app, tree_files in in_tree.items()": to_remove after the applications
\* in apps have been visited
RECURSIVE MergeLoop(_, _, _)
MergeLoop(apps, in_tree, on_branch) ==
    IF apps = {} THEN <<>>
    ELSE LET app == CHOOSE a \in apps : TRUE
             rest == MergeLoop(apps \ {app}, in_tree, on_branch)
             branch_files == DictGet(on_branch, app)
             feature_only == in_tree[app] \ branch_files
         IN  IF feature_only = {} THEN rest
             ELSE IF branch_files # {} THEN (app :> feature_only) @@ rest
             ELSE rest

\* check_for_potential_merge_migrations, given what the two listers returned
CheckForPotentialMergeMigrations(in_tree, on_branch) ==
    MergeLoop(DOMAIN in_tree, in_tree, on_branch)

\* the paths delete_migration_files unlinks: project_root / app / "migrations" / name
PathsOf(dict) ==
    UNION {{app \o <<"/", "migrations", "/">> \o name : name \in dict[app]} :
              app \in DOMAIN dict}

\* every file of the migrations directories of to_remove unlinked, the
\* names in filenames not looked at
DeleteWholeDirectories(files, dict) ==
    {f \in files : PatternMatches(f) /\ PatternGroups(f).app_dir \in DOMAIN dict}

\* delete_migration_files: the paths that exist are unlinked and returned
DeleteMigrationFiles(files, dict) == PathsOf(dict) \cap files

(***************************************************************************)
(* The confirmation prompt.                                                *)
(***************************************************************************)
\* str.lower() on the letters a reply is made of
LowerChar(c) ==
    CASE c = "Y" -> "y"
      [] c = "E" -> "e"
      [] c = "S" -> "s"
      [] c = "N" -> "n"
      [] OTHER -> c

Lower(s) == [i \in 1..Len(s) |-> LowerChar(s[i])]

NoReply == [kind |-> "none", text |-> <<>>]

\* a line typed at the prompt; EOFError; KeyboardInterrupt
Line(text) == [kind |-> "line", text |-> text]

EndOfFile == [kind |-> "eof", text |-> <<>>]

Interrupt == [kind |-> "interrupt", text |-> <<>>]

\* a reply confirms unless it is "n" or "no": an empty line confirms too
ReplyConfirmsByDefault(r) ==
    r.kind = "line" /\ Lower(Strip(r.text)) \notin {<<"n">>, <<"n", "o">>}

\* input(...).strip().lower() in ("y", "yes"), no exception raised
ReplyConfirms(r) ==
    r.kind = "line" /\ Lower(Strip(r.text)) \in {<<"y">>, <<"y", "e", "s">>}
(***************************************************************************)
(* The environment the tools run in: what the repository, the project      *)
(* settings, the working tree and the terminal can hold.                   *)
(***************************************************************************)
Mig(app, num, desc) == app \o <<"/", "migrations", "/">> \o num \o <<"_">> \o desc \o <<".py">>

\* Paths of the target branch, in the order git ls-tree lists them.
ListingUniverse ==
    << Mig(<<"a">>, <<"0", "0", "0", "2">>, <<"x">>),
       Mig(<<"a">>, <<"0", "0", "0", "2">>, <<"y">>),
       Mig(<<"a">>, <<"1", "0">>, <<"x">>),
       Mig(<<"a">>, <<"9">>, <<"x">>),
       <<"a", "/", "migrations", "/", "_", "x", ".py">>,
       Mig(<<"b">>, <<"0", "0", "0", "1">>, <<"x">>),
       <<"s", "/", "site-packages", "/">> \o Mig(<<"b">>, <<"0", "0", "0", "3">>, <<"x">>) >>

\* the listing that holds the paths numbered in S, in git's order
RECURSIVE ListingFrom(_, _)
ListingFrom(S, i) ==
    IF i > Len(ListingUniverse) THEN <<>>
    ELSE (IF i \in S THEN <<ListingUniverse[i]>> ELSE <<>>) \o ListingFrom(S, i + 1)

Listings(max) ==
    {ListingFrom(S, 1) :
        S \in {T \in SUBSET (1..Len(ListingUniverse)) : Cardinality(T) <= max}}

\* what git_cmd may return for the listing: None, or at most max lines
GitOutputs(max) == {GitFailed} \cup {GitOutput(l) : l \in Listings(max)}

\* Migration files of the working tree, relative to the project root.
DiskUniverse ==
    { Mig(<<"a">>, <<"0", "0", "0", "2">>, <<"x">>),
      Mig(<<"a">>, <<"0", "0", "0", "3">>, <<"y">>),
      Mig(<<"b">>, <<"0", "0", "0", "1">>, <<"x">>) }

Disks == {D \in SUBSET DiskUniverse : Cardinality(D) <= MaxDisk}

\* INSTALLED_APPS of the project settings.
InstalledUniverse ==
    { << PlainName(<<"a", ".", "x", ".", "y">>), PlainName(<<"b">>) >>,
      << PlainName(<<"a", ".", "x">>) >>,
      << StructuredName(<<>>, <<"b", ".", "x">>), StructuredName(<<>>, <<>>) >>,
      << PlainName(<<".", "a">>), PlainName(<<"b", ".">>) >>,
      << PlainName(<<>>) >>,
      << >> }

\* What may come back from the prompt.
Replies ==
    { Line(<<"y">>), Line(<<"y", "e", "s">>), Line(<<" ", "Y", "e", "S", " ">>),
      Line(<<"n">>), Line(<<>>), Line(<<"y", "e">>), EndOfFile, Interrupt }

Flags ==
    [dry_run : BOOLEAN, skip_checkout : BOOLEAN, force : BOOLEAN, yes : BOOLEAN]

(***************************************************************************)
(* The state when a tool is started.  main never reads or writes the       *)
(* migration files of the working tree, so they are only tracked for       *)
(* run_resequence; run_resequence is part of the package build.            *)
(***************************************************************************)
Init ==
    /\ tool \in {"reset", "reseq"}
    /\ build \in (IF tool = "reset" THEN {"package", "script"} ELSE {"package"})
    /\ args \in {f \in Flags : IF tool = "reset" THEN ~f.yes
                                ELSE ~f.skip_checkout /\ ~f.force}
    /\ head \in {Branch, Feature}
    /\ pc = IF tool = "reset" THEN "start" ELSE "apps"
    /\ repo_root = ""
    /\ current_branch = ""
    /\ allowed_labels = NoneLabels
    /\ output = GitFailed
    /\ targets = <<>>
    /\ idx = 1
    /\ to_remove = <<>>
    /\ reply = NoReply
    /\ disk \in (IF tool = "reset" THEN {{}} ELSE Disks)
    /\ deleted = {}
    /\ cmds = <<>>
    /\ log = <<>>
    /\ exit_code = NoExit

\* "return code", with a last message
Return(code, message) ==
    /\ pc' = "done"
    /\ exit_code' = Returned(code)
    /\ log' = Append(log, message)

\* one mutating external command, with its exit status
Command(cmd, app, migration, rc) ==
    [cmd |-> cmd, app |-> app, migration |-> migration, rc |-> rc]
\* The projects a tool may be pointed at.  main found manage.py before it
\* asks the filter; run_resequence is handed its project root.
Projects(must_exist) ==
    {Project(e, m, i, sh, apps) :
        e \in (IF must_exist THEN {TRUE} ELSE BOOLEAN),
        m \in BOOLEAN, i \in BOOLEAN, sh \in BOOLEAN, apps \in InstalledUniverse}

Printed(tag) == \E i \in 1..Len(log) : log[i] = tag

(***************************************************************************)
(* Migration Resetter: main().                                             *)
(***************************************************************************)
\* parser.parse_args(): the package build defines no --force, and argparse
\* ends the process with status 2 on an argument it does not know
ParseArgs ==
    /\ tool = "reset" /\ pc = "start"
    /\ IF build = "package" /\ args.force
       THEN Return(2, "usage: unrecognized arguments")
       ELSE pc' = "find_root" /\ UNCHANGED <<exit_code, log>>
    /\ UNCHANGED <<tool, build, args, head, repo_root, current_branch, allowed_labels,
                   output, targets, idx, to_remove, reply, disk, deleted, cmds>>

\* find_project_root(), "if not project_root"
FindProjectRoot ==
    /\ pc = "find_root"
    /\ \E found \in BOOLEAN :
          IF ~found
          THEN Return(1, "ERROR: Could not find manage.py")
          ELSE pc' = "repo_root" /\ UNCHANGED <<exit_code, log>>
    /\ UNCHANGED <<tool, build, args, head, repo_root, current_branch, allowed_labels,
                   output, targets, idx, to_remove, reply, disk, deleted, cmds>>

\* Path(s): the empty string is the path "."
Path(s) == IF s = "" THEN "." ELSE s

\* Path.exists(): the current directory exists, and so does the top level git
\* has just reported
PathExists(path) == path \in {".", "/repo"}

\* "not repo_root or not repo_root.exists()": a Path is always true
RepoRootMissing(path) == ~TRUE \/ ~PathExists(path)

\* repo_root = Path(git_cmd(["rev-parse", "--show-toplevel"]) or ""); git_cmd
\* gives None outside a repository (or without git)
GetRepoRoot ==
    /\ pc = "repo_root"
    /\ \E toplevel \in {"", "/repo"} :
          /\ repo_root' = Path(toplevel)
          /\ IF RepoRootMissing(repo_root')
             THEN Return(1, "ERROR: Not a git repository")
             ELSE pc' = "verify" /\ UNCHANGED <<exit_code, log>>
    /\ UNCHANGED <<tool, build, args, head, current_branch, allowed_labels,
                   output, targets, idx, to_remove, reply, disk, deleted, cmds>>

\* git rev-parse --verify <branch>: fails outside a repository, succeeds for
\* the branch that is checked out, may fail for another
VerifyBranch ==
    /\ pc = "verify"
    /\ \E ok \in BOOLEAN :
          /\ repo_root = "." => ~ok
          /\ (repo_root # "." /\ head = Branch) => ok
          /\ IF ~ok
             THEN Return(1, "ERROR: Branch does not exist")
             ELSE pc' = "current" /\ UNCHANGED <<exit_code, log>>
    /\ UNCHANGED <<tool, build, args, head, repo_root, current_branch, allowed_labels,
                   output, targets, idx, to_remove, reply, disk, deleted, cmds>>

\* the test of the script build, which knows --force
AlreadyOnBranchUnlessForced(current) == current = Branch /\ ~args.force

\* "if current_branch == args.branch" without the early return
NeverAlreadyOnBranch(current) == FALSE

\* "if current_branch == args.branch" (package build), "... and not
\* args.force" (script build)
AlreadyOnBranch(current) ==
    IF build = "package" THEN current = Branch
    ELSE AlreadyOnBranchUnlessForced(current)

\* current_branch = git rev-parse --abbrev-ref HEAD, then the early return
\* or the context lines
GetCurrentBranch ==
    /\ pc = "current"
    /\ current_branch' = head
    /\ IF AlreadyOnBranch(current_branch')
       THEN Return(0, "Already on branch. Nothing to do.")
       ELSE /\ pc' = "apps"
            /\ log' = log \o (IF args.dry_run THEN <<"(dry run - no changes will be made)">>
                              ELSE <<>>)
            /\ UNCHANGED exit_code
    /\ UNCHANGED <<tool, build, args, head, repo_root, allowed_labels,
                   output, targets, idx, to_remove, reply, disk, deleted, cmds>>

\* the filter of the build, applied to a project
InstalledApps(project) ==
    IF build = "package" THEN GetInstalledAppDirs(project)
    ELSE GetInstalledAppLabels(project)

\* allowed_labels = get_installed_app_dirs(...); "if not allowed_labels":
\* the warning.  Both tools start their work with these lines.
LoadInstalledApps ==
    /\ pc = "apps"
    /\ \E project \in Projects(tool = "reset") :
          /\ allowed_labels' = InstalledApps(project)
          /\ log' = log \o (IF ~Truthy(allowed_labels')
                            THEN <<"WARNING: Could not load INSTALLED_APPS">>
                            ELSE <<>>)
    /\ pc' = IF tool = "reset" THEN "targets" ELSE "check"
    /\ UNCHANGED <<tool, build, args, head, repo_root, current_branch,
                   output, targets, idx, to_remove, reply, disk, deleted, cmds, exit_code>>
\* targets = get_migration_targets(...), then the plan or "No migrations
\* found"
GetTargets ==
    /\ tool = "reset" /\ pc = "targets"
    /\ \E out \in GitOutputs(MaxListing) :
          /\ output' = out
          /\ targets' = GetMigrationTargets(out, allowed_labels)
    /\ IF targets' = <<>>
       THEN /\ log' = Append(log, "No migrations found. Nothing to reset.")
            /\ pc' = "checkout"
       ELSE /\ log' = Append(log, "Resetting migrations to match branch:")
            /\ pc' = "migrate"
    /\ idx' = 1
    /\ UNCHANGED <<tool, build, args, head, repo_root, current_branch, allowed_labels,
                   to_remove, reply, disk, deleted, cmds, exit_code>>

\* the loop goes on to the next target, or leaves for the checkout
NextTarget ==
    /\ idx' = idx + 1
    /\ pc' = IF idx = Len(targets) THEN "checkout" ELSE "migrate"
    /\ UNCHANGED exit_code

\* the loop with a failed migrate only reported, not returned on
RunMigrateKeepGoing ==
    /\ tool = "reset" /\ pc = "migrate"
    /\ IF args.dry_run
       THEN /\ log' = Append(log, "[dry-run] would run: migrate")
            /\ NextTarget
            /\ UNCHANGED cmds
       ELSE \E rc \in {0, 1} :
               /\ cmds' = Append(cmds, Command("migrate", targets[idx].app,
                                               targets[idx].migration, rc))
               /\ log' = IF rc # 0 THEN Append(log, "ERROR: migrate failed") ELSE log
               /\ NextTarget
    /\ UNCHANGED <<tool, build, args, head, repo_root, current_branch, allowed_labels,
                   output, targets, to_remove, reply, disk, deleted>>

\* dry-run ignored by run_migrate: the command is always executed
RunMigrateIgnoringDryRun ==
    /\ tool = "reset" /\ pc = "migrate"
    /\ \E rc \in {0, 1} :
          /\ cmds' = Append(cmds, Command("migrate", targets[idx].app,
                                          targets[idx].migration, rc))
          /\ IF rc # 0
             THEN Return(1, "ERROR: migrate failed") /\ UNCHANGED idx
             ELSE NextTarget /\ UNCHANGED log
    /\ UNCHANGED <<tool, build, args, head, repo_root, current_branch, allowed_labels,
                   output, targets, to_remove, reply, disk, deleted>>

\* one pass of "for app, migration in targets: if not run_migrate(...):
\* return 1".  run_migrate prints the command in dry-run mode and executes
\* manage.py migrate <app> <migration> --noinput otherwise.
RunMigrate ==
    /\ tool = "reset" /\ pc = "migrate"
    /\ IF args.dry_run
       THEN /\ log' = Append(log, "[dry-run] would run: migrate")
            /\ NextTarget
            /\ UNCHANGED cmds
       ELSE \E rc \in {0, 1} :
               /\ cmds' = Append(cmds, Command("migrate", targets[idx].app,
                                               targets[idx].migration, rc))
               /\ IF rc # 0
                  THEN Return(1, "ERROR: migrate failed") /\ UNCHANGED idx
                  ELSE NextTarget /\ UNCHANGED log
    /\ UNCHANGED <<tool, build, args, head, repo_root, current_branch, allowed_labels,
                   output, targets, to_remove, reply, disk, deleted>>

\* the checkout with --skip-checkout not looked at
CheckoutIgnoringSkip ==
    /\ tool = "reset" /\ pc = "checkout"
    /\ IF args.dry_run
       THEN Return(0, "Would run: git checkout") /\ UNCHANGED <<cmds, head>>
       ELSE \E rc \in {0, 1} :
               /\ cmds' = Append(cmds, Command("checkout", <<>>, <<>>, rc))
               /\ IF rc = 0
                  THEN Return(0, "Done.") /\ head' = Branch
                  ELSE Return(1, "ERROR: git checkout failed") /\ UNCHANGED head
    /\ UNCHANGED <<tool, build, args, repo_root, current_branch, allowed_labels,
                   output, targets, idx, to_remove, reply, disk, deleted>>

\* "Checkout target branch": skipped, printed, or git checkout <branch>
Checkout ==
    /\ tool = "reset" /\ pc = "checkout"
    /\ IF args.skip_checkout
       THEN Return(0, "Skipping checkout (--skip-checkout).") /\ UNCHANGED <<cmds, head>>
       ELSE IF args.dry_run
       THEN Return(0, "Would run: git checkout") /\ UNCHANGED <<cmds, head>>
       ELSE \E rc \in {0, 1} :
               /\ cmds' = Append(cmds, Command("checkout", <<>>, <<>>, rc))
               /\ IF rc = 0
                  THEN Return(0, "Done.") /\ head' = Branch
                  ELSE Return(1, "ERROR: git checkout failed") /\ UNCHANGED head
    /\ UNCHANGED <<tool, build, args, repo_root, current_branch, allowed_labels,
                   output, targets, idx, to_remove, reply, disk, deleted>>

(***************************************************************************)
(* Migration Resequencer: run_resequence().                                *)
(***************************************************************************)
\* to_remove = check_for_potential_merge_migrations(...), then "No
\* feature-only migrations found" or the list of the files found
CheckForMerge ==
    /\ tool = "reseq" /\ pc = "check"
    /\ \E out \in GitOutputs(MaxBranchFiles) :
          /\ output' = out
          /\ to_remove' = CheckForPotentialMergeMigrations(
                              GetMigrationFilesInWorkingTree(disk, allowed_labels),
                              GetAllMigrationFilesOnBranch(out, allowed_labels))
    /\ IF DOMAIN to_remove' = {}
       THEN Return(0, "No feature-only migrations found. Nothing to resequence.")
       ELSE /\ log' = Append(log, "Found migration(s) on this branch that are not on branch:")
            /\ pc' = "plan"
            /\ UNCHANGED exit_code
    /\ UNCHANGED <<tool, build, args, head, repo_root, current_branch, allowed_labels,
                   targets, idx, reply, disk, deleted, cmds>>

\* "if dry_run": the report and return 0; else on to the prompt, or past it
\* with yes
Plan ==
    /\ tool = "reseq" /\ pc = "plan"
    /\ IF args.dry_run
       THEN Return(0, "(dry run - no files will be deleted)")
       ELSE /\ pc' = IF args.yes THEN "delete" ELSE "confirm"
            /\ UNCHANGED <<exit_code, log>>
    /\ UNCHANGED <<tool, build, args, head, repo_root, current_branch, allowed_labels,
                   output, targets, idx, to_remove, reply, disk, deleted, cmds>>

\* "if not yes": input(), "Aborted." and return 1 unless the reply confirms
Confirm ==
    /\ tool = "reseq" /\ pc = "confirm"
    /\ \E r \in Replies :
          /\ reply' = r
          /\ IF ReplyConfirms(r)
             THEN /\ pc' = "delete"
                  /\ log' = Append(log, "Delete these migrations and run makemigrations? [y/N]: ")
                  /\ UNCHANGED exit_code
             ELSE /\ pc' = "done"
                  /\ exit_code' = Returned(1)
                  /\ log' = log \o <<"Delete these migrations and run makemigrations? [y/N]: ",
                                     "Aborted.">>
    /\ UNCHANGED <<tool, build, args, head, repo_root, current_branch, allowed_labels,
                   output, targets, idx, to_remove, disk, deleted, cmds>>

\* deleted = delete_migration_files(project_root, to_remove)
Delete ==
    /\ tool = "reseq" /\ pc = "delete"
    /\ deleted' = DeleteMigrationFiles(disk, to_remove)
    /\ disk' = disk \ deleted'
    /\ log' = Append(log, "Deleted file(s).")
    /\ pc' = "makemigrations"
    /\ UNCHANGED <<tool, build, args, head, repo_root, current_branch, allowed_labels,
                   output, targets, idx, to_remove, reply, cmds, exit_code>>

\* "if not run_makemigrations(...): return 1" left out: the run ends with
\* "Done." and 0 whatever makemigrations exited with
MakemigrationsFailureIgnored ==
    /\ tool = "reseq" /\ pc = "makemigrations"
    /\ \E rc \in {0, 1} :
          /\ cmds' = Append(cmds, Command("makemigrations", <<>>, <<>>, rc))
          /\ Return(0, "Done. Review the new migration(s) and commit as needed.")
    /\ UNCHANGED <<tool, build, args, head, repo_root, current_branch, allowed_labels,
                   output, targets, idx, to_remove, reply, disk, deleted>>

\* run_makemigrations(project_root, dry_run=False): manage.py makemigrations.
\* The files makemigrations writes are not tracked.
Makemigrations ==
    /\ tool = "reseq" /\ pc = "makemigrations"
    /\ \E rc \in {0, 1} :
          /\ cmds' = Append(cmds, Command("makemigrations", <<>>, <<>>, rc))
          /\ IF rc = 0
             THEN Return(0, "Done. Review the new migration(s) and commit as needed.")
             ELSE Return(1, "ERROR: makemigrations failed")
    /\ UNCHANGED <<tool, build, args, head, repo_root, current_branch, allowed_labels,
                   output, targets, idx, to_remove, reply, disk, deleted>>

Next ==
    \/ ParseArgs
    \/ FindProjectRoot
    \/ GetRepoRoot
    \/ VerifyBranch
    \/ GetCurrentBranch
    \/ LoadInstalledApps
    \/ GetTargets
    \/ RunMigrate
    \/ Checkout
    \/ CheckForMerge
    \/ Plan
    \/ Confirm
    \/ Delete
    \/ Makemigrations

Spec == Init /\ [][Next]_vars

\* Both tools are sequential code: a statement that can run does run, every
\* external command is awaited and the prompt is answered (or interrupted).
SpecLive == Init /\ [][Next]_vars /\ WF_vars(Next)

(***************************************************************************)
(* The Lister on its own: main after its context checks have passed in a   *)
(* plain run (no flag given, a feature branch checked out), from the       *)
(* filter to get_migration_targets.                                        *)
(***************************************************************************)
InitLister ==
    /\ tool = "reset"
    /\ build \in {"package", "script"}
    /\ args = [dry_run |-> FALSE, skip_checkout |-> FALSE, force |-> FALSE, yes |-> FALSE]
    /\ head = Feature
    /\ pc = "apps"
    /\ repo_root = "/repo"
    /\ current_branch = Feature
    /\ allowed_labels = NoneLabels
    /\ output = GitFailed
    /\ targets = <<>>
    /\ idx = 1
    /\ to_remove = <<>>
    /\ reply = NoReply
    /\ disk = {}
    /\ deleted = {}
    /\ cmds = <<>>
    /\ log = <<>>
    /\ exit_code = NoExit

NextLister ==
    \/ LoadInstalledApps
    \/ GetTargets

SpecLister == InitLister /\ [][NextLister]_vars

(***************************************************************************)
(* The feature-only computation on its own: run_resequence, called with    *)
(* its defaults, from the filter to check_for_potential_merge_migrations.  *)
(***************************************************************************)
InitMerge ==
    /\ tool = "reseq"
    /\ build = "package"
    /\ args = [dry_run |-> TRUE, skip_checkout |-> FALSE, force |-> FALSE, yes |-> FALSE]
    /\ head = Feature
    /\ pc = "apps"
    /\ repo_root = ""
    /\ current_branch = ""
    /\ allowed_labels = NoneLabels
    /\ output = GitFailed
    /\ targets = <<>>
    /\ idx = 1
    /\ to_remove = <<>>
    /\ reply = NoReply
    /\ disk \in Disks
    /\ deleted = {}
    /\ cmds = <<>>
    /\ log = <<>>
    /\ exit_code = NoExit

NextMerge ==
    \/ LoadInstalledApps
    \/ CheckForMerge

SpecMerge == InitMerge /\ [][NextMerge]_vars
(***************************************************************************)
(* Properties.                                                             *)
(***************************************************************************)
\* the positions in cmds of the commands of one kind
Commands(kind) == {i \in 1..Len(cmds) : cmds[i].cmd = kind}

\* main has returned from get_migration_targets
TargetsComputed ==
    /\ tool = "reset"
    /\ \/ Printed("No migrations found. Nothing to reset.")
       \/ Printed("Resetting migrations to match branch:")

\* main ended at one of its three context checks, or in the argument parser
ContextMissing ==
    \/ Printed("ERROR: Could not find manage.py")
    \/ Printed("ERROR: Not a git repository")
    \/ Printed("ERROR: Branch does not exist")

UsageError == Printed("usage: unrecognized arguments")

\* run_resequence has computed to_remove and has deleted nothing yet
MergeChecked ==
    /\ tool = "reseq"
    /\ ~Printed("Deleted file(s).")
    /\ \/ Printed("No feature-only migrations found. Nothing to resequence.")
       \/ Printed("Found migration(s) on this branch that are not on branch:")

\* every order the lines of a listing can come in
Reorderings(lines) ==
    {[i \in 1..Len(lines) |-> lines[f[i]]] : f \in Permutations(1..Len(lines))}

TargetApps == {targets[i].app : i \in 1..Len(targets)}

\* C1: in dry-run mode no migrate, checkout or makemigrations command is
\* executed and no migration file is deleted, whatever the other flags are,
\* and the tool returns 0 (main: once its context checks have passed;
\* run_resequence: always).
C1_DryRunMutatesNothing ==
    args.dry_run =>
        /\ cmds = <<>>
        /\ deleted = {}
        /\ ~Printed("Deleted file(s).")
        /\ (pc = "done" /\ ~ContextMissing /\ ~UsageError) => exit_code = Returned(0)

\* a dry run of main that printed two migrate commands and the checkout
C1_Witness ==
    /\ tool = "reset" /\ args.dry_run /\ ~args.skip_checkout
    /\ pc = "done" /\ exit_code = Returned(0)
    /\ Len(targets) = 2
    /\ Printed("[dry-run] would run: migrate")
    /\ Printed("Would run: git checkout")

\* C2: main, having read that the current branch is the target branch and
\* not forced, returns 0 at once with no mutating command executed;
\* run_resequence without apply (dry_run), started on the target branch,
\* executes no command, deletes no file and returns 0.
C2_NoOpOnTargetBranch ==
    /\ (tool = "reset" /\ current_branch = Branch /\ ~args.force) =>
            /\ pc = "done"
            /\ exit_code = Returned(0)
            /\ cmds = <<>>
            /\ ~TargetsComputed
    /\ (tool = "reseq" /\ head = Branch /\ args.dry_run) =>
            /\ cmds = <<>>
            /\ deleted = {}
            /\ ~Printed("Deleted file(s).")
            /\ pc = "done" => exit_code = Returned(0)

\* main stopped at "Already on <branch>" although --skip-checkout was not given
C2_Witness ==
    /\ tool = "reset" /\ current_branch = Branch /\ ~args.force
    /\ ~args.dry_run /\ ~args.skip_checkout
    /\ pc = "done" /\ exit_code = Returned(0)
    /\ Printed("Already on branch. Nothing to do.")

\* C3: check_for_potential_merge_migrations returns the mapping whose keys
\* are the applications of in_tree that have a file missing from the branch
\* AND at least one file on the branch, each with the set difference
\* in_tree[a] \ on_branch[a] as its value.
C3_FeatureOnlyIsSetDifference ==
    MergeChecked =>
        LET in_tree == GetMigrationFilesInWorkingTree(disk, allowed_labels)
            on_branch == GetAllMigrationFilesOnBranch(output, allowed_labels)
            OnBranch(a) == IF a \in DOMAIN on_branch THEN on_branch[a] ELSE {}
        IN  /\ DOMAIN to_remove =
                   {a \in DOMAIN in_tree :
                       in_tree[a] \ OnBranch(a) # {} /\ OnBranch(a) # {}}
            /\ \A a \in DOMAIN to_remove : to_remove[a] = in_tree[a] \ on_branch[a]

\* the scenario of the specification: "a" has 0002_x and 0003_y in the tree
\* and 0002_x on the branch, "b" has 0001_x in the tree and nothing on the
\* branch; only "a" is reported, with 0003_y
C3_Witness ==
    /\ MergeChecked
    /\ disk = { Mig(<<"a">>, <<"0", "0", "0", "2">>, <<"x">>),
                Mig(<<"a">>, <<"0", "0", "0", "3">>, <<"y">>),
                Mig(<<"b">>, <<"0", "0", "0", "1">>, <<"x">>) }
    /\ output = GitOutput(<< Mig(<<"a">>, <<"0", "0", "0", "2">>, <<"x">>) >>)
    /\ allowed_labels.none
    /\ DOMAIN to_remove = {<<"a">>}
    /\ to_remove[<<"a">>] = {<<"0", "0", "0", "3", "_", "y", ".py">>}

\* what C4 says of one result: one pair per application with a kept line,
\* each naming a file of the application with the largest number
LatestPerApplication(result, lines) ==
    LET entries == MigrationEntries(lines, allowed_labels)
        mine(app) == {j \in 1..Len(entries) : entries[j].app = app}
    IN  /\ {result[i].app : i \in 1..Len(result)} = {entries[j].app : j \in 1..Len(entries)}
        /\ \A i, k \in 1..Len(result) : result[i].app = result[k].app => i = k
        /\ \A i \in 1..Len(result) :
              \E j \in mine(result[i].app) :
                 /\ entries[j].name = result[i].migration
                 /\ \A k \in mine(result[i].app) : entries[k].num <= entries[j].num

\* C4 as claimed: get_migration_targets returns one pair per application,
\* naming the file with the largest numeric prefix, and returns the same for
\* every permutation of the listing.
C4_Original ==
    (TargetsComputed /\ output.ok) =>
        /\ LatestPerApplication(targets, output.lines)
        /\ \A r \in Reorderings(output.lines) :
              GetMigrationTargets(GitOutput(r), allowed_labels) = targets

\* C4 as amended: get_migration_targets returns one pair per application,
\* naming a file with the largest numeric prefix; for every permutation of
\* the listing the applications are the same, and so is the migration of
\* each application in which only one file has the largest numeric prefix.
C4_LatestByNumber ==
    (TargetsComputed /\ output.ok) =>
        /\ LatestPerApplication(targets, output.lines)
        /\ \A r \in Reorderings(output.lines) :
              LET other == GetMigrationTargets(GitOutput(r), allowed_labels)
                  entries == MigrationEntries(output.lines, allowed_labels)
                  Largest(app) ==
                      {j \in 1..Len(entries) :
                          /\ entries[j].app = app
                          /\ \A k \in 1..Len(entries) :
                                entries[k].app = app => entries[k].num <= entries[j].num}
              IN  /\ LatestPerApplication(other, r)
                  /\ Len(other) = Len(targets)
                  /\ \A i \in 1..Len(targets) :
                        /\ other[i].app = targets[i].app
                        /\ Cardinality(Largest(targets[i].app)) = 1 =>
                               other[i].migration = targets[i].migration

\* 10_x is listed before 9_x and is the latest of "a"; "b" has its own pair
C4_Witness ==
    /\ TargetsComputed
    /\ output = GitOutput(<< Mig(<<"a">>, <<"1", "0">>, <<"x">>),
                             Mig(<<"a">>, <<"9">>, <<"x">>),
                             Mig(<<"b">>, <<"0", "0", "0", "1">>, <<"x">>) >>)
    /\ targets = << [app |-> <<"a">>, migration |-> <<"1", "0", "_", "x">>],
                    [app |-> <<"b">>, migration |-> <<"0", "0", "0", "1", "_", "x">>] >>
\* C5: in a run of main that is not a dry run, the migrate commands are
\* those of targets[1], targets[2], ... in ascending application order, each
\* executed once; a migrate command that exits non-zero is the last command
\* of the run (no later migrate, no checkout, no retry), the failure is
\* reported and main returns 1.
C5_StopAtFirstFailure ==
    tool = "reset" =>
        /\ \A i, j \in 1..Len(targets) :
              i < j => StrLess(targets[i].app, targets[j].app)
        /\ \A i \in Commands("migrate") :
              /\ ~args.dry_run
              /\ i <= Len(targets)
              /\ cmds[i].app = targets[i].app
              /\ cmds[i].migration = targets[i].migration
              /\ cmds[i].rc # 0 =>
                    /\ i = Len(cmds)
                    /\ pc = "done"
                    /\ exit_code = Returned(1)
                    /\ log[Len(log)] = "ERROR: migrate failed"

\* the first of two planned migrate commands failed
C5_Witness ==
    /\ tool = "reset" /\ ~args.dry_run /\ ~args.skip_checkout
    /\ Len(targets) = 2
    /\ Len(cmds) = 1 /\ cmds[1].cmd = "migrate" /\ cmds[1].rc = 1
    /\ pc = "done" /\ exit_code = Returned(1)

\* C6: git checkout is executed at most once, as the last command of the
\* run, after one successful migrate command per target (none when no
\* target was found); never with --skip-checkout; in dry-run mode it is
\* printed and not executed.
C6_CheckoutAfterAllMigrations ==
    tool = "reset" =>
        /\ \A i \in Commands("checkout") :
              /\ i = Len(cmds)
              /\ i = Len(targets) + 1
              /\ \A j \in 1..(i - 1) : cmds[j].cmd = "migrate" /\ cmds[j].rc = 0
              /\ ~args.skip_checkout
              /\ ~args.dry_run
              /\ pc = "done"
        /\ Printed("Would run: git checkout") =>
              args.dry_run /\ ~args.skip_checkout /\ cmds = <<>>

\* the checkout ran after two successful migrate commands
C6_Witness ==
    /\ tool = "reset"
    /\ Len(targets) = 2
    /\ Len(cmds) = 3
    /\ cmds[1].cmd = "migrate" /\ cmds[2].cmd = "migrate"
    /\ cmds[3].cmd = "checkout" /\ cmds[3].rc = 0
    /\ pc = "done" /\ exit_code = Returned(0)

Prompts == {i \in 1..Len(log) : log[i] = "Delete these migrations and run makemigrations? [y/N]: "}

\* C7: in apply mode with files to remove, run_resequence prompts exactly
\* when yes is not given (once); a reply that, trimmed and lower-cased, is
\* neither "y" nor "yes", or an interrupted prompt, ends the run with 1, no
\* file deleted and makemigrations not executed; with yes there is no
\* prompt and the files are deleted.
C7_ConfirmationGate ==
    (tool = "reseq" /\ ~args.dry_run /\ DOMAIN to_remove # {}
        /\ pc \in {"delete", "makemigrations", "done"}) =>
        /\ Cardinality(Prompts) = IF args.yes THEN 0 ELSE 1
        /\ args.yes <=> reply = NoReply
        /\ (reply # NoReply
              /\ ~(reply.kind = "line"
                     /\ Lower(Strip(reply.text)) \in {<<"y">>, <<"y", "e", "s">>})) =>
                 /\ pc = "done"
                 /\ exit_code = Returned(1)
                 /\ deleted = {}
                 /\ ~Printed("Deleted file(s).")
                 /\ cmds = <<>>
        /\ (args.yes /\ pc # "delete") =>
                 /\ Printed("Deleted file(s).")
                 /\ deleted = PathsOf(to_remove)

\* the reply "ye" declined the deletion
C7_Witness ==
    /\ tool = "reseq" /\ ~args.dry_run /\ ~args.yes
    /\ DOMAIN to_remove # {}
    /\ reply = Line(<<"y", "e">>)
    /\ pc = "done" /\ exit_code = Returned(1)
    /\ deleted = {}

\* C8 as claimed: main returns 0 on success or no-op, and 1 whenever
\* manage.py is not found, the directory is not a git repository, the branch
\* does not exist (each before any migrate or checkout), or the file
\* listing, a migrate or the checkout fails.
C8_ExitCodes ==
    (tool = "reset" /\ pc = "done" /\ ~UsageError) =>
        LET listing_failed == TargetsComputed /\ ~output.ok
            command_failed == \E i \in 1..Len(cmds) : cmds[i].rc # 0
        IN  /\ exit_code \in {Returned(0), Returned(1)}
            /\ ContextMissing => exit_code = Returned(1) /\ cmds = <<>>
            /\ repo_root = "." => exit_code = Returned(1) /\ cmds = <<>>
            /\ listing_failed => exit_code = Returned(1)
            /\ command_failed => exit_code = Returned(1)
            /\ (~ContextMissing /\ ~listing_failed /\ ~command_failed) =>
                   exit_code = Returned(0)

\* the applications of the listing: of its paths that match the pattern and
\* are not vendored
ListedApps ==
    {PatternGroups(Strip(output.lines[i])).app_dir :
        i \in {j \in 1..Len(output.lines) :
                  /\ ~IsVendored(output.lines[j])
                  /\ PatternMatches(Strip(output.lines[j]))}}

\* C9: the warning is printed exactly when the filter gave nothing (None,
\* or an empty set), and the run goes on to the listing; the targets then
\* cover every application of the listing, unfiltered; when the filter gave
\* a non-empty set, the targets cover the listed applications of that set
\* and no other.
C9_UnknownAppsFallback ==
    TargetsComputed =>
        /\ Printed("WARNING: Could not load INSTALLED_APPS") <=> ~Truthy(allowed_labels)
        /\ (output.ok /\ ~Truthy(allowed_labels)) => TargetApps = ListedApps
        /\ (output.ok /\ Truthy(allowed_labels)) =>
               TargetApps = ListedApps \cap allowed_labels.labels

\* the filter gave None and both applications of the listing are targets
C9_Witness ==
    /\ TargetsComputed
    /\ allowed_labels.none
    /\ Printed("WARNING: Could not load INSTALLED_APPS")
    /\ TargetApps = {<<"a">>, <<"b">>}

\* C10: first-segment extraction is idempotent: every label the package
\* build's filter keeps, FirstSegment(p) of an entry p, is its own first
\* segment.
C10_FirstSegmentIdempotent ==
    (build = "package" /\ pc # "apps") =>
        \A label \in allowed_labels.labels : FirstSegment(label) = label

\* the labels "a" and "b", kept from the entries "a.x.y" and "b"
C10_Witness ==
    /\ build = "package" /\ pc # "apps"
    /\ allowed_labels = SomeLabels({<<"a">>, <<"b">>})

\* run_resequence went past the prompt (confirmed, or yes given) in apply mode
ApplyConfirmed ==
    /\ tool = "reseq" /\ ~args.dry_run
    /\ \/ pc \in {"delete", "makemigrations"}
       \/ Printed("Deleted file(s).")

\* C11: in a confirmed apply run of run_resequence, makemigrations is
\* invoked only after every feature-only file has been deleted from the
\* working tree, at most once while the run goes on and exactly once when it
\* has ended, as its only command and with no argument beyond the base
\* command; when it exits non-zero the run returns 1 and the deleted files
\* are still absent; the run returns 0 only when it exited with 0.
C11_DeleteThenMakemigrationsOnce ==
    ApplyConfirmed =>
        /\ DOMAIN to_remove # {}
        /\ Cardinality(Commands("makemigrations")) = (IF pc = "done" THEN 1 ELSE 0)
        /\ Len(cmds) = Cardinality(Commands("makemigrations"))
        /\ \A i \in Commands("makemigrations") :
              /\ cmds[i].app = <<>> /\ cmds[i].migration = <<>>
              /\ Printed("Deleted file(s).")
              /\ deleted = PathsOf(to_remove)
              /\ disk \cap PathsOf(to_remove) = {}
              /\ cmds[i].rc # 0 =>
                    /\ exit_code = Returned(1)
                    /\ log[Len(log)] = "ERROR: makemigrations failed"
              /\ exit_code = Returned(0) => cmds[i].rc = 0
        /\ pc = "done" => exit_code \in {Returned(0), Returned(1)}

\* makemigrations failed after the feature-only file of "a" was deleted:
\* the run returned 1, and the file is absent while the shared one is kept
C11_Witness ==
    /\ ApplyConfirmed
    /\ pc = "done" /\ exit_code = Returned(1)
    /\ Len(cmds) = 1 /\ cmds[1].cmd = "makemigrations" /\ cmds[1].rc = 1
    /\ deleted = { Mig(<<"a">>, <<"0", "0", "0", "3">>, <<"y">>) }
    /\ disk = { Mig(<<"a">>, <<"0", "0", "0", "2">>, <<"x">>) }
\* C13 as claimed: when several migration files of one application share
\* the largest numeric prefix, the migration get_migration_targets names
\* for that application is the one of them that comes last in the listing.
C13_LastOfTiesIsLatest ==
    (TargetsComputed /\ output.ok) =>
        LET entries == MigrationEntries(output.lines, allowed_labels)
            Of(app) == LET Mine(e) == e.app = app IN SelectSeq(entries, Mine)
        IN  \A i \in 1..Len(targets) :
               targets[i].migration = MaxByNumberLast(Of(targets[i].app)).name
\* the paths of the target branch as git listed them to run_resequence
BranchPaths == IF output.ok THEN {output.lines[i] : i \in 1..Len(output.lines)} ELSE {}

\* C14: in every step of run_resequence the files that leave the working
\* tree are files of the reported feature-only mapping to_remove: none of
\* them is a path of the target branch, none belongs to an application
\* that is not a key of to_remove, and only delete_migration_files removes
\* any; the list it returns holds exactly the files removed, each of which
\* existed in its migrations directory when it was called.
C14_DeletedWithinFeatureOnly ==
    [][tool = "reseq" =>
          LET gone == disk \ disk'
          IN  /\ disk' \subseteq disk
              /\ gone \subseteq PathsOf(to_remove)
              /\ gone \cap BranchPaths = {}
              /\ \A f \in gone : PatternGroups(f).app_dir \in DOMAIN to_remove
              /\ gone # {} => pc = "delete"
              /\ pc = "delete" => deleted' = gone
              /\ pc # "delete" => deleted' = deleted
              /\ deleted' \subseteq PathsOf(to_remove)
              /\ deleted' \cap disk' = {}]_vars

\* after the deletion: 0003_y of "a" is gone, 0002_x of "a" (on the branch)
\* and 0001_x of "b" (an application the mapping does not hold) are kept
C14_Witness ==
    /\ tool = "reseq" /\ pc = "makemigrations"
    /\ output = GitOutput(<< Mig(<<"a">>, <<"0", "0", "0", "2">>, <<"x">>) >>)
    /\ DOMAIN to_remove = {<<"a">>}
    /\ deleted = { Mig(<<"a">>, <<"0", "0", "0", "3">>, <<"y">>) }
    /\ disk = { Mig(<<"a">>, <<"0", "0", "0", "2">>, <<"x">>),
                Mig(<<"b">>, <<"0", "0", "0", "1">>, <<"x">>) }
\* The place of a position of the code in the state machine of the
\* specification: Idle (arguments and context checks), Discovering
\* (applications), Listing (targets), DryRunReport or Executing, terminal.
Phase(p) ==
    CASE p \in {"start", "find_root", "repo_root", "verify", "current"} -> 0
      [] p = "apps" -> 1
      [] p \in {"targets", "check"} -> 2
      [] p \in {"migrate", "checkout", "plan", "confirm", "delete", "makemigrations"} -> 3
      [] p = "done" -> 4

\* the listing step is over: main is back from get_migration_targets,
\* run_resequence from check_for_potential_merge_migrations
ListingDone ==
    \/ TargetsComputed
    \/ /\ tool = "reseq"
       /\ \/ Printed("No feature-only migrations found. Nothing to resequence.")
          \/ Printed("Found migration(s) on this branch that are not on branch:")

\* git ls-tree exited non-zero in the listing step
ListingFailed == ListingDone /\ ~output.ok

\* a migrate, checkout or makemigrations command exited non-zero
CommandFailed == \E i \in 1..Len(cmds) : cmds[i].rc # 0

\* Done and Failed
Done == pc = "done" /\ exit_code = Returned(0)

Failed == pc = "done" /\ exit_code # NoExit /\ exit_code # Returned(0)

\* a step never goes back in the state machine, and nothing happens after
\* a terminal state
ForwardStep ==
    /\ Phase(pc) <= Phase(pc')
    /\ pc = "done" => UNCHANGED vars

\* one terminal state per run, Failed as soon as an external command has
\* failed (the failed command is the last one), Done only when none has
ExitMatchesOutcome ==
    /\ pc = "done" <=> (Done \/ Failed)
    /\ pc # "done" => exit_code = NoExit
    /\ (ContextMissing \/ ListingFailed \/ CommandFailed) => Failed
    /\ \A i \in 1..Len(cmds) : cmds[i].rc # 0 => i = Len(cmds)
    /\ (pc = "done" /\ repo_root = ".") => Failed

\* C12 as claimed: every run of main and of run_resequence moves forward
\* through Idle, Discovering, Listing and DryRunReport or Executing, ends in
\* exactly one terminal state, Done (0) or Failed (non-zero), after which
\* no command is run; it is Failed at the first failed external command and
\* Done only when every step succeeded.
C12_RunStateMachine ==
    /\ [][ForwardStep]_vars
    /\ []ExitMatchesOutcome
    /\ <>(pc = "done")
====
